---- MODULE Spec2Model ----
(***************************************************************************)
(* A model of calphy/input.py: the construction of a Calculation (the      *)
(* chain of pydantic "after" validators), the conversion of a legacy       *)
(* input file (_convert_legacy_inputfile) and the identifier / folder      *)
(* naming of a calculation (create_identifier, get_folder_name,            *)
(* create_folders).                                                        *)
(*                                                                         *)
(* Python values are represented as follows.                               *)
(*   - a number is an integer; in the naming part, where int() truncates,  *)
(*     a number x stands for the real x / Scale;                           *)
(*   - an optional number is None or Some(v);                              *)
(*   - a raw pressure / temperature / n_switching_steps value is a record  *)
(*     with a shape tag: absent, scalar, a flat list, or a list of rows;   *)
(*   - a string is a TLA+ string; a dict is a function;                    *)
(*   - a raised exception is the name of its class.                        *)
(***************************************************************************)
EXTENDS Integers, Sequences, FiniteSets, TLC

(***************************************************************************)
(* Bounds of the model.                                                    *)
(***************************************************************************)
\* longest flat list drawn for pressure, temperature and n_switching_steps
MaxLen == 3
\* largest per-species atom count the structure resolver returns
MaxAtoms == 2
\* largest number of atom types a structure file holds
MaxTypes == 2
\* longest lists of lattices, pressures and temperatures of a legacy entry
MaxLattices == 2
MaxPressures == 2
MaxTemperatures == 2
\* a temperature or pressure of the naming part is a multiple of 1 / Scale,
\* of absolute value at most MaxNum / Scale
Scale == 2
MaxNum == 2
\* longest lattice path drawn for the naming part
MaxPathLen == 2

(***************************************************************************)
(* Program constants.                                                      *)
(***************************************************************************)
\* default of _n_switching_steps and _n_sweep_steps, and of both entries of
\* the field n_switching_steps
DefaultSwitchingSteps == 50000
\* the pressure annotation: rows of exactly 3 components, at most 2 rows
PressureComponents == 3
PressureMaxRows == 2

(***************************************************************************)
(* Python values.                                                          *)
(***************************************************************************)
None == [none |-> TRUE, v |-> 0]
Some(x) == [none |-> FALSE, v |-> x]
\* an absent optional string
NoneStr == [none |-> TRUE, v |-> ""]

RawAbsent == [shape |-> "absent", val |-> 0, list |-> <<>>, rows |-> <<>>]
RawScalar(x) == [shape |-> "scalar", val |-> x, list |-> <<>>, rows |-> <<>>]
RawList(l) == [shape |-> "list", val |-> 0, list |-> l, rows |-> <<>>]
RawNested(r) == [shape |-> "nested", val |-> 0, list |-> <<>>, rows |-> r]

\* all sequences over S of a length in lens
SeqsOf(S, lens) == UNION {[1..n -> S] : n \in lens}

\* numpy.isscalar
NpIsScalar(x) == x.shape = "scalar"

\* numpy.shape, as a tuple; rows are of one length wherever it is applied
NpShape(x) ==
    CASE x.shape = "list" -> <<Len(x.list)>>
      [] x.shape = "nested" -> <<Len(x.rows), Len(x.rows[1])>>
      [] OTHER -> <<>>

\* numpy.atleast_1d of a scalar or a flat list
NpAtleast1d(x) == IF x.shape = "scalar" THEN <<x.val>> ELSE x.list

\* a variant of _check_equal that forgets the third component
CheckEqualFirstTwo(val) == val[1] = val[2]

\* _check_equal
_check_equal(val) == (val[1] = val[2]) /\ (val[2] = val[3])

(***************************************************************************)
(* The field annotations of Calculation that pydantic checks before any    *)
(* model validator runs.                                                   *)
(***************************************************************************)
PressureFieldOk(x) ==
    \/ x.shape \in {"absent", "scalar"}
    \/ x.shape = "list" /\ Len(x.list) \in 1..2
    \/ /\ x.shape = "nested"
       /\ Len(x.rows) \in 1..PressureMaxRows
       /\ \A i \in 1..Len(x.rows) : Len(x.rows[i]) = PressureComponents

TemperatureFieldOk(x) ==
    \/ x.shape \in {"absent", "scalar"}
    \/ x.shape = "list" /\ Len(x.list) \in 1..2

SwitchingFieldOk(x) ==
    \/ x.shape \in {"absent", "scalar"}
    \/ x.shape = "list" /\ Len(x.list) = 2

FieldsOk(raw) ==
    /\ PressureFieldOk(raw.pressure)
    /\ TemperatureFieldOk(raw.temperature)
    /\ SwitchingFieldOk(raw.n_switching_steps)

(***************************************************************************)
(* Strings: str.split() on whitespace, str.join, str.lower.                *)
(***************************************************************************)
Whitespace == {" "}

RECURSIVE SplitFrom(_, _, _, _)
SplitFrom(s, i, cur, acc) ==
    IF i > Len(s)
    THEN IF cur = "" THEN acc ELSE Append(acc, cur)
    ELSE LET c == SubSeq(s, i, i) IN
         IF c \in Whitespace
         THEN SplitFrom(s, i + 1, "", IF cur = "" THEN acc ELSE Append(acc, cur))
         ELSE SplitFrom(s, i + 1, cur \o c, acc)

\* s.split()
PySplit(s) == SplitFrom(s, 1, "", <<>>)

\* a variant of join that leaves the separator out
RECURSIVE Concatenated(_, _)
Concatenated(sep, parts) ==
    IF parts = <<>> THEN "" ELSE Head(parts) \o Concatenated(sep, Tail(parts))

RECURSIVE PyJoin(_, _)
\* sep.join(parts)
PyJoin(sep, parts) ==
    IF parts = <<>> THEN ""
    ELSE IF Len(parts) = 1 THEN parts[1]
    ELSE parts[1] \o sep \o PyJoin(sep, Tail(parts))

LowerChar(c) ==
    CASE c = "F" -> "f"
      [] c = "C" -> "c"
      [] c = "B" -> "b"
      [] OTHER -> c

RECURSIVE PyLower(_)
\* s.lower(), on the letters the modelled lattice names use
PyLower(s) ==
    IF s = "" THEN ""
    ELSE LowerChar(SubSeq(s, 1, 1)) \o PyLower(SubSeq(s, 2, Len(s)))

(***************************************************************************)
(* The instance under construction.  Its fields are the attributes the     *)
(* class declares (the grouped sub-configurations, which no validator      *)
(* reads, are left out); reading any other name raises AttributeError.     *)
(* A validator yields the updated instance or a raised exception.          *)
(***************************************************************************)
Raise(cls, validator) == [exc |-> cls, by |-> validator]
Raised(r) == "exc" \in DOMAIN r

HasAttr(self, name) == name \in DOMAIN self

\* the instance after the field annotations and defaults have been applied
NewInstance(raw) ==
    [ element |-> raw.element,
      n_elements |-> None,
      mass |-> raw.mass,
      mode |-> raw.mode,
      lattice |-> raw.lattice,
      file_format |-> raw.file_format,
      pressure |-> raw.pressure,
      _pressure |-> None,
      _pressure_stop |-> None,
      _pressure_input |-> RawAbsent,
      _iso |-> FALSE,
      _fix_lattice |-> FALSE,
      temperature |-> raw.temperature,
      _temperature |-> None,
      _temperature_high |-> None,
      _temperature_stop |-> None,
      _temperature_input |-> RawAbsent,
      pair_style |-> raw.pair_style,
      _pair_style_options |-> None,
      lattice_constant |-> raw.lattice_constant,
      n_switching_steps |->
          IF raw.n_switching_steps.shape = "absent"
          THEN RawList(<<DefaultSwitchingSteps, DefaultSwitchingSteps>>)
          ELSE raw.n_switching_steps,
      _n_switching_steps |-> DefaultSwitchingSteps,
      _n_sweep_steps |-> DefaultSwitchingSteps,
      folder_prefix |-> raw.folder_prefix,
      _structure |-> "None" ]

_validate_lengths(self) ==
    IF Len(self.element) # Len(self.mass)
    THEN Raise("ValueError", "_validate_lengths")
    ELSE self

_validate_nelements(self) ==
    [self EXCEPT !.n_elements = Some(Len(self.element))]

_validate_pressure(self) ==
    LET s == [self EXCEPT !._pressure_input = self.pressure]
        p == s.pressure
    IN
    IF p.shape = "absent" THEN
        [s EXCEPT !._iso = TRUE, !._fix_lattice = TRUE,
                  !._pressure = None, !._pressure_stop = None]
    ELSE IF NpIsScalar(p) THEN
        [s EXCEPT !._pressure = Some(p.val), !._pressure_stop = Some(p.val),
                  !._iso = TRUE, !._fix_lattice = FALSE]
    ELSE IF NpShape(p) = <<1>> THEN
        IF ~HasAttr(s, "pressure_input")
        THEN Raise("AttributeError", "_validate_pressure")
        ELSE [s EXCEPT !._iso = TRUE, !._fix_lattice = FALSE,
                       !._pressure = Some(s["pressure_input"].list[1]),
                       !._pressure_stop = Some(s["pressure_input"].list[1])]
    ELSE IF NpShape(p) = <<2>> THEN
        IF ~HasAttr(s, "pressure_input")
        THEN Raise("AttributeError", "_validate_pressure")
        ELSE [s EXCEPT !._iso = TRUE, !._fix_lattice = FALSE,
                       !._pressure = Some(s["pressure_input"].list[1]),
                       !._pressure_stop = Some(s["pressure_input"].list[2])]
    ELSE IF NpShape(p) = <<1, 3>> THEN
        IF ~_check_equal(p.rows[1])
        THEN Raise("ValueError", "_validate_pressure")
        ELSE IF ~HasAttr(s, "pressure_input")
        THEN Raise("AttributeError", "_validate_pressure")
        ELSE [s EXCEPT !._iso = FALSE, !._fix_lattice = FALSE,
                       !._pressure = Some(s["pressure_input"].rows[1][1]),
                       !._pressure_stop = Some(s["pressure_input"].rows[1][1])]
    ELSE IF NpShape(p) = <<2, 3>> THEN
        IF ~(_check_equal(p.rows[1]) /\ _check_equal(p.rows[2]))
        THEN Raise("ValueError", "_validate_pressure")
        ELSE IF ~HasAttr(s, "pressure_input")
        THEN Raise("AttributeError", "_validate_pressure")
        ELSE [s EXCEPT !._iso = FALSE, !._fix_lattice = FALSE,
                       !._pressure = Some(s["pressure_input"].rows[1][1]),
                       !._pressure_stop = Some(s["pressure_input"].rows[2][1])]
    ELSE Raise("ValueError", "_validate_pressure")

_validate_temperature(self) ==
    LET s == [self EXCEPT !._temperature_input = self.temperature]
        t == s.temperature
    IN
    IF t.shape = "absent" THEN
        [s EXCEPT !._temperature = None]
    ELSE IF Len(NpAtleast1d(t)) = 1 THEN
        LET temp == NpAtleast1d(t) IN
        [s EXCEPT !._temperature = Some(temp[1]),
                  !._temperature_stop = Some(temp[1]),
                  !._temperature_high =
                      IF s._temperature_high.none THEN Some(2 * temp[1]) ELSE @]
    ELSE IF NpShape(t) = <<2>> THEN
        IF ~HasAttr(s, "temperature_input")
        THEN Raise("AttributeError", "_validate_temperature")
        ELSE LET temp == s["temperature_input"].list IN
             [s EXCEPT !._temperature = Some(temp[1]),
                       !._temperature_stop = Some(temp[2]),
                       !._temperature_high =
                           IF s._temperature_high.none THEN Some(2 * temp[2]) ELSE @]
    ELSE s

\* the loop over self.pair_style, building ps_lst (names) and ps_options_lst
RECURSIVE PairStyleLoop(_, _, _)
PairStyleLoop(styles, names, options) ==
    IF styles = <<>> THEN [names |-> names, options |-> options]
    ELSE LET ps == Head(styles)
             ps_split == PySplit(ps)
         IN
         IF ps_split = <<>> THEN Raise("IndexError", "_validate_pair_style")
         ELSE PairStyleLoop(Tail(styles),
                            Append(names, ps_split[1]),
                            Append(options,
                                   IF Len(ps) > 1
                                   THEN PyJoin(" ", Tail(ps_split))
                                   ELSE ""))

_validate_pair_style(self) ==
    LET r == PairStyleLoop(self.pair_style, <<>>, <<>>) IN
    IF Raised(r) THEN r
    ELSE [self EXCEPT !.pair_style = r.names,
                      !._pair_style_options =
                          IF self._pair_style_options.none THEN Some(r.options) ELSE @]

_validate_time(self) ==
    IF NpIsScalar(self.n_switching_steps) THEN
        [self EXCEPT !._n_sweep_steps = self.n_switching_steps.val]
    ELSE
        [self EXCEPT !._n_sweep_steps = self.n_switching_steps.list[2],
                     !._n_switching_steps = self.n_switching_steps.list[1]]

(***************************************************************************)
(* Lattice resolution.  The collaborators from pyscal3 and ase are outside *)
(* this file: structure_dict and element_dict are tables, and the          *)
(* structure that _make_crystal or read returns is an answer of the        *)
(* environment: cnt[i] atoms of the i-th species (of type i, for a file).  *)
(***************************************************************************)
StructureDict == {"fcc", "bcc"}
ElementDict == {"Cu", "Zr"}
ElementLatticeConstant(el) == IF el = "Cu" THEN 4 ELSE 3

RECURSIVE SumSeq(_)
SumSeq(q) == IF q = <<>> THEN 0 ELSE Head(q) + SumSeq(Tail(q))

\* numpy.unique(typelist, return_counts=True) as a dict symbol -> count, for
\* a type list holding cnt[i] times the symbol symbols[i]
UniqueCounts(symbols, cnt) ==
    LET types == {symbols[i] : i \in {j \in 1..Len(cnt) : cnt[j] > 0}} IN
    [t \in types |->
        SumSeq([i \in 1..Len(cnt) |-> IF symbols[i] = t THEN cnt[i] ELSE 0])]

\* typecounts[c] / numpy.sum(typecounts) per symbol, kept as a fraction
CompositionFractions(concdict_counts, total) ==
    [t \in DOMAIN concdict_counts |-> [num |-> concdict_counts[t], den |-> total]]

\* the zero written for a requested element the structure does not hold
ZeroFraction == [num |-> 0, den |-> 1]

\* the loop "for el in self.element: if el not in concdict_counts.keys()"
BackFill(dict, element, zero) ==
    [el \in (DOMAIN dict) \cup {element[i] : i \in 1..Len(element)} |->
        IF el \in DOMAIN dict THEN dict[el] ELSE zero]

\* the names bound in the branch of _validate_lattice that reads a file
FileBranchLocals ==
    {"aseobj", "typelist", "types", "typecounts", "concdict_counts",
     "concdict_frac", "el"}

_validate_lattice(self, files, cnt) ==
    IF PyLower(self.lattice) \in StructureDict THEN
        IF self.lattice_constant = 0 /\ self.element[1] \notin ElementDict
        THEN Raise("ValueError", "_validate_lattice")
        ELSE
        LET lattice_constant ==
                IF self.lattice_constant = 0
                THEN ElementLatticeConstant(self.element[1])
                ELSE self.lattice_constant
            concdict_counts == UniqueCounts(self.element, cnt)
            concdict_frac == CompositionFractions(concdict_counts, SumSeq(cnt))
        IN
        [self EXCEPT !.lattice_constant = lattice_constant,
                     !.lattice = "input.conf.data"]
          @@ [a \in {"_composition", "_composition_counts", "_natoms"} |->
                CASE a = "_composition" -> concdict_frac
                  [] a = "_composition_counts" -> concdict_counts
                  [] a = "_natoms" -> SumSeq(cnt)]
    ELSE
        IF self.lattice \notin files
        THEN Raise("ValueError", "_validate_lattice")
        ELSE IF self.file_format # "lammps-data"
        THEN Raise("TypeError", "_validate_lattice")
        ELSE IF \E i \in 1..Len(cnt) : cnt[i] > 0 /\ i > Len(self.element)
        THEN Raise("IndexError", "_validate_lattice")
        ELSE
        LET symbols == [i \in 1..Len(cnt) |->
                           IF i <= Len(self.element) THEN self.element[i] ELSE ""]
            counts0 == UniqueCounts(symbols, cnt)
            concdict_counts == BackFill(counts0, self.element, 0)
            concdict_frac ==
                BackFill(CompositionFractions(counts0, SumSeq(cnt)),
                         self.element, ZeroFraction)
        IN
        IF "structure" \notin FileBranchLocals
        THEN Raise("UnboundLocalError", "_validate_lattice")
        ELSE [self EXCEPT !._structure = "System"]
               @@ [a \in {"_composition", "_composition_counts", "_natoms"} |->
                     CASE a = "_composition" -> concdict_frac
                       [] a = "_composition_counts" -> concdict_counts
                       [] a = "_natoms" -> SumSeq(cnt)]

(***************************************************************************)
(* Constructing a Calculation: the field annotations, then the validators  *)
(* in the order the class defines them; the first exception ends it.       *)
(***************************************************************************)
\* the first field, in the order of their declaration, whose value does not
\* fit its annotation ("" when all do)
FirstBadField(raw) ==
    IF ~PressureFieldOk(raw.pressure) THEN "pressure"
    ELSE IF ~TemperatureFieldOk(raw.temperature) THEN "temperature"
    ELSE IF ~SwitchingFieldOk(raw.n_switching_steps) THEN "n_switching_steps"
    ELSE ""

Calculation(raw, files, cnt) ==
    IF ~FieldsOk(raw) THEN Raise("ValidationError", FirstBadField(raw))
    ELSE
    LET s1 == _validate_lengths(NewInstance(raw))
        s2 == IF Raised(s1) THEN s1 ELSE _validate_nelements(s1)
        s3 == IF Raised(s2) THEN s2 ELSE _validate_pressure(s2)
        s4 == IF Raised(s3) THEN s3 ELSE _validate_temperature(s3)
        s5 == IF Raised(s4) THEN s4 ELSE _validate_pair_style(s4)
        s6 == IF Raised(s5) THEN s5 ELSE _validate_time(s5)
    IN IF Raised(s6) THEN s6 ELSE _validate_lattice(s6, files, cnt)

(***************************************************************************)
(* The legacy converter, _convert_legacy_inputfile.                        *)
(*                                                                         *)
(* The loaded file is a dict `data`; an entry of data['calculations'] is a *)
(* dict `ci`.  Dicts are functions on their keys.  The values of a         *)
(* converted record are tagged with their Python type, since yaml's safe   *)
(* dumper represents the built-in types only.                              *)
(***************************************************************************)
PyFloat(x) == [t |-> "float", v |-> x]
PyStr(x) == [t |-> "str", v |-> x]
Ndarray(items) == [t |-> "ndarray", v |-> items]
Yaml(x) == [t |-> "yaml", v |-> x]

\* the keys copied from the top level of the file into every record
TopLevelKeys ==
    {"md", "queue", "tolerance", "melting_temperature", "nose_hoover",
     "berendsen", "composition_scaling", "temperature_high",
     "element", "mass", "script_mode", "lammps_executable", "mpi_executable"}

\* the keys copied from the entry into every record
EntryKeys ==
    {"mode", "pair_style", "pair_coeff", "pair_style_options", "npt", "repeat",
     "n_equilibration_steps", "n_switching_steps", "n_print_steps",
     "n_iterations", "potential_file", "spring_constants", "melting_cycle",
     "equilibration_control", "folder_prefix", "temperature_high"}

\* the keys an entry of another mode than melting_temperature is indexed with
RequiredKeys == {"pressure", "temperature", "lattice", "reference_phase"}

\* a variant of the product that pairs the three sequences index by index
ZipProduct(a, b, c) ==
    LET n == IF Len(a) <= Len(b) /\ Len(a) <= Len(c) THEN Len(a)
             ELSE IF Len(b) <= Len(c) THEN Len(b) ELSE Len(c)
    IN [k \in 1..n |-> <<a[k], b[k], c[k]>>]

\* itertools.product(a, b, c), in its order
ItertoolsProduct(a, b, c) ==
    [k \in 1..(Len(a) * Len(b) * Len(c)) |->
        << a[((k - 1) \div (Len(b) * Len(c))) + 1],
           b[(((k - 1) \div Len(c)) % Len(b)) + 1],
           c[((k - 1) % Len(c)) + 1] >>]

\* an element met when iterating over a numpy array, and a whole array kept
\* as the single element of a list
Item(x) == [ndarray |-> FALSE, v |-> x]
Whole(items) == [ndarray |-> TRUE, v |-> items]
Items(arr) == [i \in 1..Len(arr) |-> Item(arr[i])]

\* float(x) raises TypeError for an array of two values
FloatFails(x) == x.ndarray

\* the record built for one combo
ExpandedRecord(data, ci, combo) ==
    LET top == [k \in (DOMAIN data) \cap TopLevelKeys |-> Yaml(data[k])]
        own == [k \in (DOMAIN ci) \cap EntryKeys |-> Yaml(ci[k])]
        set == [ lattice |-> PyStr(combo[1].lattice),
                 lattice_constant |-> PyFloat(combo[1].lattice_constant),
                 reference_phase |-> PyStr(combo[1].reference_phase),
                 pressure |-> PyFloat(combo[2].v),
                 temperature |-> PyFloat(combo[3].v) ]
    IN set @@ own @@ top

\* the record of a melting_temperature entry
MeltingRecord(ci) ==
    LET Get(key, default) ==
            IF key \in DOMAIN ci THEN NpAtleast1d(ci[key]) ELSE <<default>>
    IN [ pressure |-> Ndarray(Get("pressure", 0)),
         temperature |-> Ndarray(Get("temperature", "None")),
         lattice |-> Ndarray(Get("lattice", "None")),
         reference_phase |-> Ndarray(Get("reference_phase", "None")),
         lattice_constant |-> Ndarray(Get("lattice_constant", 0)) ]

\* the combos of an entry of another mode (the modes drawn are the eight the
\* function names), or the exception raised on the way
Combos(ci) ==
    IF RequiredKeys \ DOMAIN ci # {} THEN Raise("KeyError", "entry")
    ELSE
    LET mode == ci["mode"]
        pressure == NpAtleast1d(ci["pressure"])
        temperature == NpAtleast1d(ci["temperature"])
        lattice == NpAtleast1d(ci["lattice"])
        reference_phase == NpAtleast1d(ci["reference_phase"])
        lattice_constant ==
            IF "lattice_constant" \in DOMAIN ci
            THEN NpAtleast1d(ci["lattice_constant"])
            ELSE [x \in 1..Len(lattice) |-> 0]
    IN
    IF Len(lattice) > Len(lattice_constant) \/ Len(lattice) > Len(reference_phase)
    THEN Raise("IndexError", "lat_props")
    ELSE
    LET lat_props ==
            [x \in 1..Len(lattice) |->
                [ lattice |-> lattice[x],
                  lattice_constant |-> lattice_constant[x],
                  reference_phase |-> reference_phase[x] ]]
    IN
    IF mode \in {"fe", "alchemy", "composition_scaling"} THEN
        [combos |-> ItertoolsProduct(lat_props, Items(pressure), Items(temperature))]
    ELSE IF mode \in {"ts", "tscale", "mts"} THEN
        IF Len(temperature) # 2 THEN Raise("ValueError", "temperature arity")
        ELSE [combos |->
                ItertoolsProduct(lat_props, Items(pressure), <<Whole(temperature)>>)]
    ELSE IF mode = "pscale" THEN
        IF Len(pressure) # 2 THEN Raise("ValueError", "pressure arity")
        ELSE [combos |->
                ItertoolsProduct(lat_props, <<Whole(pressure)>>, Items(temperature))]
    ELSE Raise("UnboundLocalError", "combos")

\* the records one entry appends to `calculations`, or the exception raised
ConvertEntry(data, ci) ==
    IF ci["mode"] = "melting_temperature" THEN [records |-> <<MeltingRecord(ci)>>]
    ELSE
    LET c == Combos(ci) IN
    IF Raised(c) THEN c
    ELSE IF \E k \in 1..Len(c.combos) :
                FloatFails(c.combos[k][2]) \/ FloatFails(c.combos[k][3])
    THEN Raise("TypeError", "float")
    ELSE [records |->
            [k \in 1..Len(c.combos) |-> ExpandedRecord(data, ci, c.combos[k])]]

RECURSIVE ConvertEntries(_, _, _)
\* the loop over data['calculations']
ConvertEntries(data, entries, calculations) ==
    IF entries = <<>> THEN [records |-> calculations]
    ELSE LET r == ConvertEntry(data, Head(entries)) IN
         IF Raised(r) THEN r
         ELSE ConvertEntries(data, Tail(entries), calculations \o r.records)

\* yaml.safe_dump represents no numpy array
Representable(record) == \A k \in DOMAIN record : record[k].t # "ndarray"

\* _convert_legacy_inputfile(file) on the loaded data, with writable telling
\* whether the output file can be opened for writing.  The outcome: the
\* exception raised or the name returned, the events in their order, and the
\* content the output file is left with ("absent" when it was never opened).
ConvertLegacy(file, data, writable) ==
    IF "element" \notin DOMAIN data THEN
        [status |-> "failed", exc |-> "ValueError", by |-> "not old format",
         log |-> <<>>, written |-> "absent", calculations |-> <<>>]
    ELSE
    LET r == ConvertEntries(data, data["calculations"], <<>>)
        outfile == "new." \o file
    IN
    IF Raised(r) THEN
        [status |-> "failed", exc |-> r.exc, by |-> r.by,
         log |-> <<>>, written |-> "absent", calculations |-> <<>>]
    ELSE IF ~writable THEN
        [status |-> "failed", exc |-> "OSError", by |-> "open",
         log |-> <<"warn">>, written |-> "absent", calculations |-> r.records]
    ELSE IF \E k \in 1..Len(r.records) : ~Representable(r.records[k]) THEN
        [status |-> "failed", exc |-> "RepresenterError", by |-> "safe_dump",
         log |-> <<"warn", "open">>, written |-> "partial",
         calculations |-> r.records]
    ELSE
        [status |-> "ok", result |-> outfile,
         log |-> <<"warn", "open", "dump">>, written |-> "complete",
         calculations |-> r.records]

(***************************************************************************)
(* The identifier and the folder of a calculation.  A temperature or a     *)
(* pressure x stands for the real x / Scale, so that int() has something   *)
(* to truncate.                                                            *)
(***************************************************************************)
\* int(x): truncation towards zero
PyInt(x) == IF x >= 0 THEN x \div Scale ELSE -((-x) \div Scale)

RECURSIVE SplitOnFrom(_, _, _, _, _)
SplitOnFrom(s, sep, i, cur, acc) ==
    IF i > Len(s) THEN Append(acc, cur)
    ELSE LET c == SubSeq(s, i, i) IN
         IF c = sep
         THEN SplitOnFrom(s, sep, i + 1, "", Append(acc, cur))
         ELSE SplitOnFrom(s, sep, i + 1, cur \o c, acc)

\* s.split(sep), for a separator of one character
PySplitOn(s, sep) == SplitOnFrom(s, sep, 1, "", <<>>)

\* a variant that keeps the whole path
WholePath(l) == l

\* l.split('/')[-1]
LastComponent(l) == LET parts == PySplitOn(l, "/") IN parts[Len(parts)]

\* str(n) and "%d" % n of an int
PyStrInt(n) == ToString(n)

\* create_identifier: the string returned or the exception raised
create_identifier(self) ==
    LET prefix == self.mode IN
    IF prefix # "melting_temperature" /\ self._temperature.none
    THEN Raise("TypeError", "create_identifier")
    ELSE
    LET melting == prefix = "melting_temperature"
        ts == IF melting THEN 0 ELSE PyInt(self._temperature.v)
        ps == IF melting THEN PyStrInt(0)
              ELSE IF self._pressure.none THEN "None"
              ELSE PyStrInt(PyInt(self._pressure.v))
        l == IF melting THEN "tm" ELSE LastComponent(self.lattice)
    IN
    IF self.folder_prefix.none
    THEN [value |-> PyJoin("-", <<prefix, l, PyStrInt(ts), ps>>)]
    ELSE [value |-> PyJoin("-", <<self.folder_prefix.v, prefix, l, PyStrInt(ts), ps>>)]

\* os.getcwd()
Cwd == "/work"

\* os.path.join of a directory and a relative name
OsPathJoin(dir, name) == dir \o "/" \o name

\* get_folder_name
get_folder_name(self) ==
    LET identistring == create_identifier(self) IN
    IF Raised(identistring) THEN identistring
    ELSE [value |-> OsPathJoin(Cwd, identistring.value)]

\* a variant of the imports that has shutil
ImportsWithShutil ==
    {"yaml", "np", "copy", "datetime", "itertools", "os", "warnings", "shutil"}

\* the modules the file imports
ImportedModules ==
    {"yaml", "np", "copy", "datetime", "itertools", "os", "warnings"}

\* str(datetime.datetime.now()), its blanks replaced by hyphens
Timestamp == "2021-10-01-12:00:00.000000"

\* The directories are a function from the paths that exist to their
\* contents.  os.mkdir(path), for a path that does not exist:
Mkdir(dirs, path) == [q \in (DOMAIN dirs) \cup {path} |->
                         IF q = path THEN {} ELSE dirs[q]]
\* shutil.rmtree(path), when it succeeds
Rmtree(dirs, path) == [q \in (DOMAIN dirs) \ {path} |-> dirs[q]]
\* shutil.move(path, to), of a directory to a path that does not exist
Move(dirs, path, to) ==
    [q \in ((DOMAIN dirs) \ {path}) \cup {to} |->
        IF q = to THEN dirs[path] ELSE dirs[q]]

\* create_folders on the directories dirs, with rmtreeFails telling whether
\* shutil.rmtree would raise OSError: the directories it leaves, and the
\* path returned or the exception raised.
create_folders(self, dirs, rmtreeFails) ==
    LET simfolder == get_folder_name(self) IN
    IF Raised(simfolder) THEN [dirs |-> dirs, out |-> simfolder]
    ELSE
    LET path == simfolder.value IN
    IF path \notin DOMAIN dirs
    THEN [dirs |-> Mkdir(dirs, path), out |-> [value |-> path]]
    ELSE IF "shutil" \notin ImportedModules
    THEN [dirs |-> dirs, out |-> Raise("NameError", "create_folders")]
    ELSE IF ~rmtreeFails
    THEN [dirs |-> Mkdir(Rmtree(dirs, path), path), out |-> [value |-> path]]
    ELSE LET newstr == PyJoin("-", <<path, Timestamp>>) IN
         [dirs |-> Mkdir(Move(dirs, path, newstr), path), out |-> [value |-> path]]

\* shutil.move(path, to), of a directory to a directory that exists: the
\* directory goes into it, under its own name
MoveInto(dirs, path, to, name) ==
    [q \in (DOMAIN dirs) \ {path} |->
        IF q = to THEN dirs[q] \cup {name} ELSE dirs[q]]

\* save_job: writes job.npy into the folder of the job
SaveJob(dirs, simfolder) ==
    [dirs EXCEPT ![simfolder] = @ \cup {"job.npy"}]

(***************************************************************************)
(* State.                                                                  *)
(***************************************************************************)
VARIABLES
    raw,        \* the raw record handed to Calculation
    files,      \* the files that exist in the working directory
    calc,       \* the outcome of the construction: pending, ok or failed
    data,       \* the loaded content of the legacy input file
    writable,   \* whether the converted file can be opened for writing
    mig,        \* the outcome of the conversion
    job,        \* the calculation that is named
    dirs,       \* the directories that exist, each with its contents
    ident,      \* the outcome of the last create_identifier
    made,       \* the outcome of the last create_folders
    calls,      \* two create_folders calls in progress, step by step
    serialized  \* whether the second call waits for the first to end

normalizerVars == <<raw, files, calc>>
migratorVars == <<data, writable, mig>>
namerVars == <<job, dirs, ident, made>>
raceVars == <<calls, serialized>>
vars == <<raw, files, calc, data, writable, mig, job, dirs, ident, made,
         calls, serialized>>

\* the value of the variables of a part that a specification does not run
Idle == "idle"

(***************************************************************************)
(* The raw records drawn.  Each family varies some fields over all their   *)
(* values and keeps the others at those of BaseRaw.                        *)
(***************************************************************************)
Modes ==
    {"fe", "alchemy", "composition_scaling", "ts", "tscale", "mts", "pscale",
     "melting_temperature"}

PressureValues == {0, 1}
TemperatureValues == {300, 500}
StepValues == {25000, DefaultSwitchingSteps}

RawPressures ==
    {RawAbsent}
      \cup {RawScalar(p) : p \in PressureValues}
      \cup {RawList(l) : l \in SeqsOf(PressureValues, 0..MaxLen)}
      \cup UNION {{RawNested(r) :
                     r \in SeqsOf([1..c -> PressureValues], 1..PressureMaxRows)} :
                  c \in {PressureComponents - 1, PressureComponents}}

RawTemperatures ==
    {RawAbsent}
      \cup {RawScalar(t) : t \in TemperatureValues}
      \cup {RawList(l) : l \in SeqsOf(TemperatureValues, 0..MaxLen)}

RawSwitchingSteps ==
    {RawAbsent}
      \cup {RawScalar(n) : n \in StepValues}
      \cup {RawList(l) : l \in SeqsOf(StepValues, 0..MaxLen)}

ElementLists == {<<"Cu">>, <<"Cu", "Zr">>, <<"Zr", "Cu">>, <<"Xx">>}
MassLists == {<<63>>, <<63, 91>>}
Lattices == {"fcc", "FCC", "bcc", "conf.data"}
FileFormats == {"lammps-data", "vasp"}
LatticeConstants == {0, 4}
PairStyleStrings == {"eam", "eam pot", "eam  a b", "e", ""}

BaseRaw ==
    [ element |-> <<"Cu">>,
      mass |-> <<63>>,
      mode |-> "fe",
      lattice |-> "fcc",
      file_format |-> "lammps-data",
      pressure |-> RawScalar(0),
      temperature |-> RawScalar(300),
      pair_style |-> <<"eam">>,
      n_switching_steps |-> RawAbsent,
      lattice_constant |-> 0,
      folder_prefix |-> NoneStr ]

ThermoFamily ==
    {[BaseRaw EXCEPT !.mode = m, !.pressure = p, !.temperature = t] :
        m \in Modes, p \in RawPressures, t \in RawTemperatures}

TimeFamily ==
    {[BaseRaw EXCEPT !.n_switching_steps = n] : n \in RawSwitchingSteps}

LatticeFamily ==
    {[BaseRaw EXCEPT !.element = e, !.mass = m, !.lattice = l,
                     !.file_format = f, !.lattice_constant = c] :
        e \in ElementLists, m \in MassLists, l \in Lattices,
        f \in FileFormats, c \in LatticeConstants}

PairStyleFamily ==
    {[BaseRaw EXCEPT !.pair_style = ps] : ps \in SeqsOf(PairStyleStrings, 0..2)}

RawRecords == ThermoFamily \cup TimeFamily \cup LatticeFamily \cup PairStyleFamily

\* the structures the resolver may answer with
ResolverAnswers ==
    {c \in SeqsOf(0..MaxAtoms, 1..MaxTypes) : SumSeq(c) >= 1}

Pending == [status |-> "pending"]

InitNormalize ==
    /\ raw \in RawRecords
    /\ files \in {{}, {"conf.data"}}
    /\ calc = Pending
    /\ data = Idle /\ writable = Idle /\ mig = Idle
    /\ job = Idle /\ dirs = Idle /\ ident = Idle /\ made = Idle
    /\ calls = Idle /\ serialized = Idle

(***************************************************************************)
(* Construct: one call Calculation(raw).  _make_crystal is handed the      *)
(* element list, so its structure has one count per requested element; a   *)
(* structure file holds whatever types it holds.                           *)
(***************************************************************************)
Construct ==
    /\ calc.status = "pending"
    /\ \E cnt \in ResolverAnswers :
         /\ PyLower(raw.lattice) \in StructureDict => Len(cnt) = Len(raw.element)
         /\ LET r == Calculation(raw, files, cnt) IN
            /\ calc' = IF Raised(r)
                       THEN [status |-> "failed", exc |-> r.exc, by |-> r.by]
                       ELSE [status |-> "ok", self |-> r, structure |-> cnt]
            /\ files' = IF Raised(r) THEN files ELSE files \cup {"input.conf.data"}
    /\ UNCHANGED <<raw, migratorVars, namerVars, raceVars>>

NextNormalize == Construct

SpecNormalize == InitNormalize /\ [][NextNormalize]_vars

(***************************************************************************)
(* The legacy files drawn: one entry of every mode, with every length of   *)
(* its five quantities, or two entries out of a few.  The i-th lattice,    *)
(* pressure, ... of an entry is a value of its own, so that a record shows *)
(* which ones it was built from.                                           *)
(***************************************************************************)
InputFile == "input.yaml"

LatticeAt(i) == CASE i = 1 -> "fcc" [] i = 2 -> "bcc" [] i = 3 -> "hcp" [] OTHER -> "dia"
PhaseAt(i) == IF i % 2 = 1 THEN "solid" ELSE "liquid"
LatticeConstantAt(i) == 3 + i
PressureAt(i) == 1000 * (i - 1)
TemperatureAt(i) == 100 * (i + 2)

ListOf(At(_), n) == [i \in 1..n |-> At(i)]

LegacyPressures ==
    {RawScalar(PressureAt(1))} \cup {RawList(ListOf(PressureAt, n)) : n \in 0..MaxPressures}
LegacyTemperatures ==
    {RawScalar(TemperatureAt(1))}
      \cup {RawList(ListOf(TemperatureAt, n)) : n \in 0..MaxTemperatures}
LegacyLattices ==
    {RawScalar(LatticeAt(1))} \cup {RawList(ListOf(LatticeAt, n)) : n \in 0..MaxLattices}
LegacyPhases == {RawList(ListOf(PhaseAt, n)) : n \in 0..MaxLattices}
LegacyLatticeConstants ==
    {RawList(ListOf(LatticeConstantAt, n)) : n \in 0..MaxLattices}

Entry(m, p, t, l, r) ==
    [ mode |-> m, pressure |-> p, temperature |-> t, lattice |-> l,
      reference_phase |-> r, pair_style |-> "eam" ]

Entries ==
    LET plain == {Entry(m, p, t, l, r) :
                    m \in Modes, p \in LegacyPressures, t \in LegacyTemperatures,
                    l \in LegacyLattices, r \in LegacyPhases}
    IN plain \cup {[k \in {"lattice_constant"} |-> c] @@ e :
                     c \in LegacyLatticeConstants, e \in plain}

SampleEntries ==
    { Entry("fe", RawScalar(PressureAt(1)), RawList(ListOf(TemperatureAt, 2)),
            RawScalar(LatticeAt(1)), RawList(ListOf(PhaseAt, 1))),
      Entry("ts", RawScalar(PressureAt(1)), RawScalar(TemperatureAt(1)),
            RawScalar(LatticeAt(1)), RawList(ListOf(PhaseAt, 1))),
      [mode |-> "melting_temperature", pair_style |-> "eam"] }

LegacyData(entries) ==
    [ element |-> <<"Cu">>, mass |-> <<63>>, md |-> "md", calculations |-> entries ]

\* a file of the current format
CurrentData == [calculations |-> <<>>]

DataDrawn ==
    {CurrentData}
      \cup {LegacyData(<<e>>) : e \in Entries}
      \cup {LegacyData(<<e1, e2>>) : e1 \in SampleEntries, e2 \in SampleEntries}

InitMigrate ==
    /\ data \in DataDrawn
    /\ writable \in BOOLEAN
    /\ mig = Pending
    /\ raw = Idle /\ files = Idle /\ calc = Idle
    /\ job = Idle /\ dirs = Idle /\ ident = Idle /\ made = Idle
    /\ calls = Idle /\ serialized = Idle

\* Migrate: one call _convert_legacy_inputfile(InputFile)
Migrate ==
    /\ mig.status = "pending"
    /\ mig' = ConvertLegacy(InputFile, data, writable)
    /\ UNCHANGED <<data, writable, normalizerVars, namerVars, raceVars>>

NextMigrate == Migrate

SpecMigrate == InitMigrate /\ [][NextMigrate]_vars

(***************************************************************************)
(* The calculations named: three of the modes, every lattice path of up   *)
(* to MaxPathLen characters out of a letter and the separator, every       *)
(* temperature and pressure (or none), with and without a folder prefix.   *)
(***************************************************************************)
PathChars == {"a", "/"}
NamedModes == {"fe", "ts", "melting_temperature"}

RECURSIVE StringsUpTo(_)
StringsUpTo(n) ==
    IF n = 0 THEN {""}
    ELSE LET shorter == StringsUpTo(n - 1) IN
         shorter \cup {s \o c : s \in shorter, c \in PathChars}

Numbers == (-MaxNum)..MaxNum
OptionalNumbers == {None} \cup {Some(x) : x \in Numbers}

Jobs ==
    [ mode : NamedModes,
      lattice : StringsUpTo(MaxPathLen),
      _temperature : OptionalNumbers,
      _pressure : OptionalNumbers,
      folder_prefix : {NoneStr, Some("run")} ]

NoDirs == [q \in {} |-> {}]

InitNamer ==
    /\ job \in Jobs
    /\ dirs = NoDirs
    /\ ident = Pending
    /\ made = Pending
    /\ raw = Idle /\ files = Idle /\ calc = Idle
    /\ data = Idle /\ writable = Idle /\ mig = Idle
    /\ calls = Idle /\ serialized = Idle

Outcome(r) ==
    IF Raised(r) THEN [status |-> "raised", exc |-> r.exc]
    ELSE [status |-> "returned", value |-> r.value]

\* one call job.create_identifier()
CreateIdentifier ==
    /\ ident.status = "pending"
    /\ ident' = Outcome(create_identifier(job))
    /\ UNCHANGED <<job, dirs, made, normalizerVars, migratorVars, raceVars>>

\* one call job.create_folders(); `made` keeps, with the outcome, whether a
\* directory was there before and what is at the path when the call ends
CreateFolders ==
    \E rmtreeFails \in BOOLEAN :
        LET r == create_folders(job, dirs, rmtreeFails)
            path == get_folder_name(job)
        IN
        /\ dirs' = r.dirs
        /\ made' = Outcome(r.out) @@
                   [ existed |-> ~Raised(path) /\ path.value \in DOMAIN dirs,
                     exists |-> ~Raised(path) /\ path.value \in DOMAIN r.dirs,
                     entries |-> IF ~Raised(path) /\ path.value \in DOMAIN r.dirs
                                 THEN r.dirs[path.value] ELSE {} ]
        /\ UNCHANGED <<job, ident, normalizerVars, migratorVars, raceVars>>

\* one call save_job(job) for a job whose folder was made
SaveJobFile ==
    /\ made.status = "returned"
    /\ made.value \in DOMAIN dirs
    /\ dirs' = SaveJob(dirs, made.value)
    /\ UNCHANGED <<job, ident, made, normalizerVars, migratorVars, raceVars>>

NextNamer == CreateIdentifier \/ CreateFolders \/ SaveJobFile

SpecNamer == InitNamer /\ [][NextNamer]_vars

(***************************************************************************)
(* Two calls of create_folders on one file system, taken step by step: the *)
(* existence check (line 424), the removal with its handler (425-429) and  *)
(* the mkdir with the return (431-432).  Each step is one access to the    *)
(* file system; what a call computes on its own goes with the access that  *)
(* follows it.  When `serialized`, a call only steps while the other one   *)
(* has not begun or has ended.                                             *)
(***************************************************************************)
Callers == {1, 2}
Other(c) == 3 - c

RaceJobs ==
    {j \in Jobs : /\ j.mode = "fe"
                  /\ j.lattice \in {"a", "/a", "aa"}
                  /\ j._temperature \in {None, Some(MaxNum)}
                  /\ j._pressure = None
                  /\ j.folder_prefix = NoneStr}

NewCall(self) == [self |-> self, pc |-> "start", simfolder |-> "", exc |-> ""]

\* the directories before the calls: none, or the folder of the first
\* calculation with a saved job in it
DirsBefore(self) ==
    LET path == get_folder_name(self) IN
    {NoDirs} \cup (IF Raised(path) THEN {}
                   ELSE {SaveJob(Mkdir(NoDirs, path.value), path.value)})

InitRace ==
    /\ serialized \in BOOLEAN
    /\ \E j1 \in RaceJobs, j2 \in RaceJobs :
          /\ calls = [c \in Callers |-> NewCall(IF c = 1 THEN j1 ELSE j2)]
          /\ dirs \in DirsBefore(j1)
    /\ job = Idle /\ ident = Idle /\ made = Idle
    /\ raw = Idle /\ files = Idle /\ calc = Idle
    /\ data = Idle /\ writable = Idle /\ mig = Idle

Ended(c) == calls[c].pc \in {"returned", "raised", "clobbered"}
MayStep(c) == serialized => (calls[Other(c)].pc = "start" \/ Ended(Other(c)))

Raises(c, exc) == [calls EXCEPT ![c].pc = "raised", ![c].exc = exc]

\* the calls after call c took the directory at path away: a call that had
\* returned this path as its fresh directory has lost it
Removes(c, path, pc) ==
    [k \in Callers |->
        IF k = c THEN [calls[c] EXCEPT !.pc = pc]
        ELSE IF calls[k].pc = "returned" /\ calls[k].simfolder = path
             THEN [calls[k] EXCEPT !.pc = "clobbered"]
             ELSE calls[k]]

\* lines 420-424: simfolder = self.get_folder_name(); os.path.exists(simfolder)
CheckExists(c) ==
    /\ calls[c].pc = "start"
    /\ MayStep(c)
    /\ LET path == get_folder_name(calls[c].self) IN
       calls' = IF Raised(path) THEN Raises(c, path.exc)
                ELSE [calls EXCEPT ![c].simfolder = path.value,
                                   ![c].pc = IF path.value \in DOMAIN dirs
                                             THEN "remove" ELSE "make"]
    /\ UNCHANGED <<dirs, serialized, job, ident, made,
                   normalizerVars, migratorVars>>

\* lines 425-429: shutil.rmtree(simfolder) and, when it raises OSError, the
\* handler's shutil.move to the name with the timestamp
RemoveExisting(c) ==
    /\ calls[c].pc = "remove"
    /\ MayStep(c)
    /\ LET path == calls[c].simfolder
           newstr == PyJoin("-", <<path, Timestamp>>)
       IN
       IF "shutil" \notin ImportedModules
       THEN calls' = Raises(c, "NameError") /\ dirs' = dirs
       ELSE IF path \notin DOMAIN dirs
       THEN \* rmtree and move both find nothing at the path
            calls' = Raises(c, "FileNotFoundError") /\ dirs' = dirs
       ELSE \E rmtreeFails \in BOOLEAN :
               /\ calls' = Removes(c, path, "make")
               /\ dirs' = IF ~rmtreeFails THEN Rmtree(dirs, path)
                          ELSE IF newstr \in DOMAIN dirs
                          THEN MoveInto(dirs, path, newstr,
                                        create_identifier(calls[c].self).value)
                          ELSE Move(dirs, path, newstr)
    /\ UNCHANGED <<serialized, job, ident, made, normalizerVars, migratorVars>>

\* lines 431-432: os.mkdir(simfolder); return simfolder
MakeDirectory(c) ==
    /\ calls[c].pc = "make"
    /\ MayStep(c)
    /\ LET path == calls[c].simfolder IN
       IF path \in DOMAIN dirs
       THEN calls' = Raises(c, "FileExistsError") /\ dirs' = dirs
       ELSE calls' = [calls EXCEPT ![c].pc = "returned"]
            /\ dirs' = Mkdir(dirs, path)
    /\ UNCHANGED <<serialized, job, ident, made, normalizerVars, migratorVars>>

NextRace ==
    \E c \in Callers : CheckExists(c) \/ RemoveExisting(c) \/ MakeDirectory(c)

SpecRace == InitRace /\ [][NextRace]_vars

(***************************************************************************)
(* Properties of the construction.                                         *)
(***************************************************************************)
Constructed == calc.status = "ok"
Rejected == calc.status = "failed"
RejectedBy(stages) == Rejected /\ calc.by \in stages

IsTriples(p, n) ==
    /\ p.shape = "nested"
    /\ Len(p.rows) = n
    /\ \A i \in 1..n : Len(p.rows[i]) = PressureComponents

AllEqual(p) == \A i \in 1..Len(p.rows) : \A j \in 1..Len(p.rows[i]) :
                   p.rows[i][j] = p.rows[i][1]

\* the (pressure_start, pressure_stop, iso, fix_lattice) documented for a raw
\* pressure of one of the six shapes
IsDocumentedPressure(p) ==
    \/ p.shape \in {"absent", "scalar"}
    \/ p.shape = "list" /\ Len(p.list) \in {1, 2}
    \/ (IsTriples(p, 1) \/ IsTriples(p, 2)) /\ AllEqual(p)

DocumentedPressure(p) ==
    CASE p.shape = "absent" -> <<None, None, TRUE, TRUE>>
      [] p.shape = "scalar" -> <<Some(p.val), Some(p.val), TRUE, FALSE>>
      [] p.shape = "list" /\ Len(p.list) = 1 ->
            <<Some(p.list[1]), Some(p.list[1]), TRUE, FALSE>>
      [] p.shape = "list" /\ Len(p.list) = 2 ->
            <<Some(p.list[1]), Some(p.list[2]), TRUE, FALSE>>
      [] IsTriples(p, 1) ->
            <<Some(p.rows[1][1]), Some(p.rows[1][1]), FALSE, FALSE>>
      [] IsTriples(p, 2) ->
            <<Some(p.rows[1][1]), Some(p.rows[2][1]), FALSE, FALSE>>

PressureState(self) ==
    <<self._pressure, self._pressure_stop, self._iso, self._fix_lattice>>

\* C1: every raw pressure of one of the six shapes (absent, scalar, [p],
\* [p0, p1], [[p,p,p]], [[p0,p0,p0],[p1,p1,p1]]) passes the pressure field and
\* the pressure validator, and the record constructed from it carries the
\* documented (pressure_start, pressure_stop, iso, fix_lattice); a raw
\* pressure of any other shape yields no record.
C1_PressureShapes ==
    calc.status # "pending" =>
        IF IsDocumentedPressure(raw.pressure)
        THEN /\ ~RejectedBy({"pressure", "_validate_pressure"})
             /\ Constructed =>
                    PressureState(calc.self) = DocumentedPressure(raw.pressure)
        ELSE Rejected

TemperatureState(self) ==
    <<self._temperature, self._temperature_stop, self._temperature_high>>

IsDocumentedTemperature(t) ==
    \/ t.shape \in {"absent", "scalar"}
    \/ t.shape = "list" /\ Len(t.list) \in {1, 2}

DocumentedTemperature(t) ==
    CASE t.shape = "absent" -> <<None, None, None>>
      [] t.shape = "scalar" -> <<Some(t.val), Some(t.val), Some(2 * t.val)>>
      [] t.shape = "list" /\ Len(t.list) = 1 ->
            <<Some(t.list[1]), Some(t.list[1]), Some(2 * t.list[1])>>
      [] t.shape = "list" /\ Len(t.list) = 2 ->
            <<Some(t.list[1]), Some(t.list[2]), Some(2 * t.list[2])>>

\* C2: a temperature that is absent, a scalar t, [t] or [t0, t1] passes the
\* temperature field and the temperature validator, and the record carries
\* (null, null, null), (t, t, 2t), (t, t, 2t) and (t0, t1, 2*t1) respectively
\* as (temperature_start, temperature_stop, temperature_high).
C2_TemperatureShapes ==
    (calc.status # "pending" /\ IsDocumentedTemperature(raw.temperature)) =>
        /\ ~RejectedBy({"temperature", "_validate_temperature"})
        /\ Constructed =>
               TemperatureState(calc.self) = DocumentedTemperature(raw.temperature)

\* C3: a scalar n_switching_steps = n resolves to forward = backward = n, and
\* a pair [f, b] to forward = f and backward = b.
C3_SwitchingSteps ==
    Constructed =>
        LET n == raw.n_switching_steps
            forward == calc.self._n_switching_steps
            backward == calc.self._n_sweep_steps
        IN /\ n.shape = "scalar" => forward = n.val /\ backward = n.val
           /\ n.shape = "list" => forward = n.list[1] /\ backward = n.list[2]

\* the number of values a raw temperature or pressure gives
TemperatureArity(t) ==
    CASE t.shape = "absent" -> 0
      [] t.shape = "scalar" -> 1
      [] OTHER -> Len(t.list)

PressureArity(p) ==
    CASE p.shape = "absent" -> 0
      [] p.shape = "scalar" -> 1
      [] p.shape = "list" -> Len(p.list)
      [] OTHER -> Len(p.rows)

\* C8: a constructed Calculation of mode ts, tscale or mts has exactly two
\* temperature values, and one of mode pscale exactly two pressure values.
C8_ModeArity ==
    Constructed =>
        /\ raw.mode \in {"ts", "tscale", "mts"} =>
               TemperatureArity(raw.temperature) = 2
        /\ raw.mode = "pscale" => PressureArity(raw.pressure) = 2

HasUnequalTriple(p) == (IsTriples(p, 1) \/ IsTriples(p, 2)) /\ ~AllEqual(p)

\* what precedes the pressure validator accepts the record
ReachesPressureValidator(r) == FieldsOk(r) /\ Len(r.element) = Len(r.mass)

\* C9: a 1x3 or 2x3 pressure with an endpoint triple whose components are not
\* all equal never yields a record; when the record reaches the pressure
\* validator, it is that validator's equality check that rejects it (a
\* ValueError).
C9_UnequalTripleRejected ==
    (calc.status # "pending" /\ HasUnequalTriple(raw.pressure)) =>
        /\ Rejected
        /\ ReachesPressureValidator(raw) =>
               calc.exc = "ValueError" /\ calc.by = "_validate_pressure"

\* C9 witness: a 2x3 pressure whose first triple is equal and whose second is
\* not, rejected by the equality check.
C9_Witness ==
    /\ IsTriples(raw.pressure, 2)
    /\ _check_equal(raw.pressure.rows[1])
    /\ ~_check_equal(raw.pressure.rows[2])
    /\ Rejected
    /\ calc.exc = "ValueError"
    /\ calc.by = "_validate_pressure"

Requested(self) == {self.element[i] : i \in 1..Len(self.element)}

\* C10: after a successful lattice resolution, composition_count and
\* composition_fraction have an entry for every requested element, which is 0
\* for an element that does not occur in the resolved structure.
C10_CompositionBackFilled ==
    Constructed =>
        \A i \in 1..Len(raw.element) :
            LET el == raw.element[i] IN
            /\ el \in DOMAIN calc.self._composition_counts
            /\ el \in DOMAIN calc.self._composition
            /\ calc.structure[i] = 0 =>
                   /\ calc.self._composition_counts[el] = 0
                   /\ calc.self._composition[el].num = 0

\* the positions <<i, j>> of the first whitespace-separated token of s
IsFirstToken(s, i, j) ==
    /\ 1 <= i /\ i <= j /\ j <= Len(s)
    /\ \A k \in 1..(i - 1) : SubSeq(s, k, k) = " "
    /\ \A k \in i..j : SubSeq(s, k, k) # " "
    /\ j < Len(s) => SubSeq(s, j + 1, j + 1) = " "

HasToken(s) == \E i, j \in 1..Len(s) : IsFirstToken(s, i, j)

FirstTokenEnd(s) ==
    CHOOSE j \in 1..Len(s) : \E i \in 1..j : IsFirstToken(s, i, j)

FirstToken(s) ==
    LET j == FirstTokenEnd(s)
        i == CHOOSE k \in 1..j : IsFirstToken(s, k, j)
    IN SubSeq(s, i, j)

\* s without its leading and trailing blanks, every run of blanks between
\* two tokens made one blank: read character by character from position i,
\* `gap` telling that blanks were passed since the last character kept
RECURSIVE SingleSpaced(_, _, _, _)
SingleSpaced(s, i, out, gap) ==
    IF i > Len(s) THEN out
    ELSE LET c == SubSeq(s, i, i) IN
         IF c = " " THEN SingleSpaced(s, i + 1, out, out # "")
         ELSE SingleSpaced(s, i + 1, out \o (IF gap THEN " " ELSE "") \o c, FALSE)

RemainingTokens(s) == SingleSpaced(s, FirstTokenEnd(s) + 1, "", FALSE)

\* C11: in every constructed calculation the resolved pair_style and the
\* resolved pair_style_options have the length of the given pair_style, and
\* for every given string the resolved name is its first whitespace-separated
\* token and the resolved option string is its remaining tokens joined by
\* single blanks (the empty string for a bare name).
C11_PairStyleSplit ==
    Constructed =>
        LET given == raw.pair_style
            names == calc.self.pair_style
            options == calc.self._pair_style_options
        IN
        /\ Len(names) = Len(given)
        /\ ~options.none
        /\ Len(options.v) = Len(names)
        /\ \A i \in 1..Len(given) :
              /\ HasToken(given[i])
              /\ names[i] = FirstToken(given[i])
              /\ options.v[i] = RemainingTokens(given[i])

\* C11 witness: a calculation constructed from a string of three tokens,
\* two of them a run of blanks apart, and a bare name.
C11_Witness ==
    /\ Constructed
    /\ raw.pair_style = <<"eam  a b", "eam">>
    /\ calc.self.pair_style = <<"eam", "eam">>
    /\ calc.self._pair_style_options = Some(<<"a b", "">>)

(***************************************************************************)
(* Properties of the legacy conversion.                                    *)
(***************************************************************************)
Converted == mig.status = "ok"
ConversionFailed == mig.status = "failed"

\* the file holds one entry, of another mode than melting_temperature, whose
\* every lattice has its reference_phase and (when given) lattice_constant
OneExpandedEntry ==
    /\ "element" \in DOMAIN data
    /\ Len(data.calculations) = 1
    /\ LET ci == data.calculations[1] IN
       /\ ci.mode # "melting_temperature"
       /\ RequiredKeys \subseteq DOMAIN ci
       /\ Len(NpAtleast1d(ci.lattice)) <= Len(NpAtleast1d(ci.reference_phase))
       /\ "lattice_constant" \in DOMAIN ci =>
              Len(NpAtleast1d(ci.lattice)) <= Len(NpAtleast1d(ci.lattice_constant))

TheEntry == data.calculations[1]
EntryLattices == NpAtleast1d(TheEntry.lattice)
EntryPressures == NpAtleast1d(TheEntry.pressure)
EntryTemperatures == NpAtleast1d(TheEntry.temperature)

\* record rec carries the i-th lattice with the lattice_constant and the
\* reference_phase paired with it
CarriesLattice(rec, i) ==
    /\ rec.mode = Yaml(TheEntry.mode)
    /\ rec.lattice = PyStr(EntryLattices[i])
    /\ rec.reference_phase = PyStr(NpAtleast1d(TheEntry.reference_phase)[i])
    /\ rec.lattice_constant =
           PyFloat(IF "lattice_constant" \in DOMAIN TheEntry
                   THEN NpAtleast1d(TheEntry.lattice_constant)[i]
                   ELSE 0)

\* C4: the conversion of an entry of mode fe, alchemy or composition_scaling
\* with L lattices, P pressures and T temperatures succeeds whenever the
\* output file can be written, and then holds exactly L*P*T records, exactly
\* one for each (lattice, pressure, temperature) triple, each with the
\* lattice_constant and the reference_phase paired with its lattice.
C4_FullExpansion ==
    (mig.status # "pending" /\ OneExpandedEntry
        /\ TheEntry.mode \in {"fe", "alchemy", "composition_scaling"}) =>
        /\ Converted <=> writable
        /\ Converted =>
            LET recs == mig.calculations IN
            /\ mig.written = "complete"
            /\ Len(recs) =
                 Len(EntryLattices) * Len(EntryPressures) * Len(EntryTemperatures)
            /\ \A i \in 1..Len(EntryLattices) :
               \A j \in 1..Len(EntryPressures) :
               \A k \in 1..Len(EntryTemperatures) :
                 Cardinality({n \in 1..Len(recs) :
                                /\ CarriesLattice(recs[n], i)
                                /\ recs[n].pressure = PyFloat(EntryPressures[j])
                                /\ recs[n].temperature = PyFloat(EntryTemperatures[k])})
                   = 1

\* C4 witness: an fe entry with 2 lattices, 2 pressures and 2 temperatures,
\* converted into 8 records.
C4_Witness ==
    /\ Converted
    /\ OneExpandedEntry
    /\ TheEntry.mode = "fe"
    /\ Len(EntryLattices) = 2 /\ Len(EntryPressures) = 2 /\ Len(EntryTemperatures) = 2
    /\ Len(mig.calculations) = 8

\* C5: for an entry of mode ts, tscale or mts (paired quantity: temperature)
\* or pscale (paired quantity: pressure), the conversion fails with an arity
\* error unless the paired quantity has exactly 2 values; with exactly 2 values
\* it succeeds (the output being writable) and holds one record per
\* combination of the other two quantities, each carrying the whole pair.
C5_PairedRange ==
    (mig.status # "pending" /\ OneExpandedEntry
        /\ TheEntry.mode \in {"ts", "tscale", "mts", "pscale"}) =>
        LET onTemperature == TheEntry.mode # "pscale"
            paired == IF onTemperature THEN EntryTemperatures ELSE EntryPressures
            other == IF onTemperature THEN EntryPressures ELSE EntryTemperatures
            recs == mig.calculations
        IN
        /\ Len(paired) # 2 =>
               ConversionFailed /\ mig.exc = "ValueError"
        /\ (Len(paired) = 2 /\ writable) =>
               /\ Converted
               /\ Len(recs) = Len(EntryLattices) * Len(other)
               /\ \A n \in 1..Len(recs) :
                      IF onTemperature
                      THEN recs[n].temperature.v = paired
                      ELSE recs[n].pressure.v = paired

\* the positions of the log at which the event e stands
EventsAt(e) == {i \in 1..Len(mig.log) : mig.log[i] = e}

\* C12: in every run of the conversion the warning is emitted at most once,
\* and only after the output file has been written completely; a run that
\* fails, by an arity error or while writing the output, emits no warning.
C12_WarningAfterWrite ==
    mig.status # "pending" =>
        /\ Cardinality(EventsAt("warn")) <= 1
        /\ \A i \in EventsAt("warn") :
              /\ mig.written = "complete"
              /\ \E j \in EventsAt("dump") : j < i
        /\ ConversionFailed => EventsAt("warn") = {}

(***************************************************************************)
(* Properties of the naming.                                               *)
(***************************************************************************)
CanBeNamed == ~Raised(create_identifier(job))

\* C6: every create_folders call returns a path at which, when it returns,
\* an empty directory exists: whether or not a directory was there before.
C6_FreshDirectory ==
    (made.status # "pending" /\ CanBeNamed) =>
        /\ made.status = "returned"
        /\ made.exists
        /\ made.entries = {}

\* b is the final component of the path l: the part after its last "/"
IsFinalComponent(b, l) ==
    \E i \in 0..Len(l) :
        /\ b = SubSeq(l, i + 1, Len(l))
        /\ \A j \in (i + 1)..Len(l) : SubSeq(l, j, j) # "/"
        /\ i > 0 => SubSeq(l, i, i) = "/"

Suffixes(l) == {SubSeq(l, i + 1, Len(l)) : i \in 0..Len(l)}

\* n is the integer part of the real x / Scale
IsIntegerPart(n, x) ==
    \/ x >= 0 /\ n * Scale <= x /\ x < (n + 1) * Scale
    \/ x < 0 /\ (n - 1) * Scale < x /\ x <= n * Scale

IntegerPart(x) == CHOOSE n \in Numbers : IsIntegerPart(n, x)

OptionalIntegerPart(o) == IF o.none THEN None ELSE Some(IntegerPart(o.v))

\* the five inputs of the identifier
Key(c) ==
    [ mode |-> c.mode,
      base |-> CHOOSE b \in Suffixes(c.lattice) : IsFinalComponent(b, c.lattice),
      temperature |-> OptionalIntegerPart(c._temperature),
      pressure |-> OptionalIntegerPart(c._pressure),
      folder_prefix |-> c.folder_prefix ]

\* the identifier documented for a key
DocumentedIdentifier(k) ==
    LET head == IF k.folder_prefix.none THEN k.mode
                ELSE k.folder_prefix.v \o "-" \o k.mode
    IN
    IF k.mode = "melting_temperature" THEN head \o "-tm-0-0"
    ELSE head \o "-" \o k.base \o "-" \o ToString(k.temperature.v) \o "-"
           \o (IF k.pressure.none THEN "None" ELSE ToString(k.pressure.v))

\* C7: the outcome of create_identifier is determined by (mode, final path
\* component of lattice, int(temperature_start), int(pressure_start),
\* folder_prefix) alone.  With a temperature, in a mode other than
\* melting_temperature, it is the hyphen-join of (folder_prefix if set, mode,
\* final path component, int(temperature_start), int(pressure_start) or
\* "None"); in melting_temperature mode the last three parts are "tm", "0",
\* "0"; the one remaining case, no temperature in another mode, raises.
C7_IdentifierOfKey ==
    ident.status # "pending" =>
        LET k == Key(job) IN
        IF k.mode # "melting_temperature" /\ k.temperature.none
        THEN ident.status = "raised"
        ELSE ident.status = "returned" /\ ident.value = DocumentedIdentifier(k)

\* C7 witness: an identifier returned for a lattice with a directory part, a
\* temperature with a fractional part and a negative pressure with one.
C7_Witness ==
    /\ ident.status = "returned"
    /\ job.mode = "fe"
    /\ Len(job.lattice) > 1
    /\ SubSeq(job.lattice, Len(job.lattice) - 1, Len(job.lattice)) = "/a"
    /\ ~job._temperature.none /\ job._temperature.v % Scale # 0
    /\ ~job._pressure.none /\ job._pressure.v < 0 /\ job._pressure.v % Scale # 0
    /\ ~job.folder_prefix.none

(***************************************************************************)
(* Properties of two calls of create_folders.                              *)
(***************************************************************************)
SameIdentifier ==
    /\ ~Raised(create_identifier(calls[1].self))
    /\ create_identifier(calls[1].self) = create_identifier(calls[2].self)

\* the mkdir of call c failed because the directory was there
MkdirFailed(c) == calls[c].pc = "raised" /\ calls[c].exc = "FileExistsError"

\* the directory call c had returned as fresh was removed by the other call
LostFreshDirectory(c) == calls[c].pc = "clobbered"

Raced == \E c \in Callers : MkdirFailed(c) \/ LostFreshDirectory(c)

====
